---------------------------- MODULE Spec2Model ----------------------------
(***************************************************************************)
(* Model of the BLEScaleQt main window (src/mainwindow.cpp, mainwindow.h). *)
(*                                                                         *)
(* The window is a set of slots driven by the user (button clicks, list    *)
(* selections) and by the Bluetooth stack (discovery agent, controller and *)
(* service signals).  Every slot is one action; a slot that opens a modal  *)
(* message box is suspended in the box (variable modal) and the statements *)
(* after the box run when the box is dismissed.                            *)
(*                                                                         *)
(* Strings that the code parses (list entries) are sequences of            *)
(* one-character strings.  Addresses and UUIDs are abbreviated to short    *)
(* texts with the same shape as the real ones (no parentheses in an        *)
(* address, braces around a UUID).                                         *)
(*                                                                         *)
(* A QListWidgetItem pointer of the characteristic list is modelled by the *)
(* item's row: a stored row that is beyond the end of the list is a        *)
(* pointer to a deleted item.                                              *)
(***************************************************************************)
EXTENDS Integers, Sequences, FiniteSets, TLC

(***************************************************************************)
(* Text helpers: QString operations used by the slots.                     *)
(***************************************************************************)

\* QString::contains(sub), case sensitive.
Contains(s, sub) ==
    \E i \in 1..(Len(s) - Len(sub) + 1) : SubSeq(s, i, i + Len(sub) - 1) = sub

\* Positions of the character ch in s.
Positions(s, ch) == {i \in 1..Len(s) : s[i] = ch}

MaxOf(S) == CHOOSE x \in S : \A y \in S : y <= x

MinOf(S) == CHOOSE x \in S : \A y \in S : x <= y

\* Variant: section(ch, 1), the text after the first ch.
SectionAfterFirst(s, ch) ==
    IF Positions(s, ch) = {} THEN <<>>
    ELSE SubSeq(s, MinOf(Positions(s, ch)) + 1, Len(s))

\* QString::section(ch, -1): the text after the last ch, the whole text when
\* ch does not occur.
SectionLast(s, ch) ==
    IF Positions(s, ch) = {} THEN s
    ELSE SubSeq(s, MaxOf(Positions(s, ch)) + 1, Len(s))

\* QString::remove(ch): every occurrence of ch removed.
RemoveChar(s, ch) == SelectSeq(s, LAMBDA x : x # ch)

\* QString::split(" ").first(): the text before the first space.
SplitFirst(s) ==
    IF Positions(s, " ") = {} THEN s
    ELSE SubSeq(s, 1, MinOf(Positions(s, " ")) - 1)

NoDevicesText == <<"N","o"," ","B","l","u","e","t","o","o","t","h"," ","d","e","v","i","c","e","s"," ","f","o","u","n","d",".">>

ServicesHeaderText == <<"-","-","-"," ","D","i","s","c","o","v","e","r","e","d"," ","S","e","r","v","i","c","e","s"," ","-","-","-">>

NoServicesText == <<"N","o"," ","s","e","r","v","i","c","e","s"," ","f","o","u","n","d"," ","o","n"," ","t","h","i","s"," ","d","e","v","i","c","e",".">>

UnknownNameText == <<"(","U","n","k","n","o","w","n"," ","B","L","E"," ","D","e","v","i","c","e",")">>

(***************************************************************************)
(* The remote world: devices in range and their GATT databases.            *)
(***************************************************************************)

NullAddress == "null"

Addresses == {"A1", "B2", "C3"}

\* QBluetoothAddress::toString, abbreviated to one octet.
AddressToString(a) ==
    CASE a = "A1" -> <<"A","1">>
      [] a = "B2" -> <<"B","2">>
      [] a = "C3" -> <<"C","3">>
      [] OTHER -> <<"0","0">>

\* QBluetoothAddress(QString): the address the text spells, the null address
\* for any other text.
ParseAddress(s) ==
    IF \E a \in Addresses : AddressToString(a) = s
    THEN CHOOSE a \in Addresses : AddressToString(a) = s
    ELSE NullAddress

\* Names peripheral A1 can advertise: one with a space and parentheses and
\* one containing "No".  B2 advertises no name.
DeviceNames ==
    { <<"a"," ","(","b",")">>,
      <<"N","o","v","a">> }

\* What the discovery agent can report.  A1 and B2 are Low Energy
\* peripherals, C3 is a classic device.
DeviceUniverse ==
    [addr : {"A1"}, name : DeviceNames, le : {TRUE}]
      \cup [addr : {"B2"}, name : {<<>>}, le : {TRUE}]
      \cup [addr : {"C3"}, name : {<<"c">>}, le : {FALSE}]

\* A default-constructed QBluetoothDeviceInfo.
InvalidDevice == [addr |-> NullAddress, name |-> <<>>, le |-> FALSE]

\* Ghost value of a list entry that does not stand for a device.
NoDevice == InvalidDevice

NullUuid == "null"

ServiceUuids == {"180a", "180f"}

\* QBluetoothUuid::toString, abbreviated to the 16 bit part.
UuidToString(u) ==
    CASE u = "180a" -> <<"{","1","8","0","a","}">>
      [] u = "180f" -> <<"{","1","8","0","f","}">>
      [] u = "2a19" -> <<"{","2","a","1","9","}">>
      [] OTHER -> <<"{","0","}">>

\* QBluetoothUuid(QString): the UUID the text spells, null otherwise.
ParseUuid(s) ==
    IF \E u \in ServiceUuids : UuidToString(u) = s
    THEN CHOOSE u \in ServiceUuids : UuidToString(u) = s
    ELSE NullUuid

\* Services of the peripheral at each address, in discovery order.
GattServices(a) == IF a = "A1" THEN <<"180a", "180f">> ELSE <<>>

Char(s, h, u, p, d) == [svc |-> s, handle |-> h, uuid |-> u, props |-> p, cccd |-> d]

\* Characteristics of each service, in handle order.  Service 180a has two
\* characteristics with the same UUID; service 180f has a characteristic
\* with that UUID too.
GattCharacteristics(s) ==
    CASE s = "180a" -> << Char("180a", 1, "2a19", {"Read", "Notify"}, TRUE),
                          Char("180a", 2, "2a19", {"Read"}, FALSE) >>
      [] s = "180f" -> << Char("180f", 3, "2a19", {"Notify"}, TRUE) >>
      [] OTHER -> <<>>

AllCharacteristics ==
    UNION { {GattCharacteristics(s)[i] : i \in 1..Len(GattCharacteristics(s))}
            : s \in ServiceUuids }

\* Values a characteristic can carry: the text "A" and two bytes that do
\* not start with valid UTF-8.
Values == { <<65>>, <<255, 65>> }

HexDigit(n) ==
    <<"0","1","2","3","4","5","6","7","8","9","A","B","C","D","E","F">>[n + 1]

RECURSIVE ToHexUpper(_)
\* QByteArray::toHex().toUpper(): two digits per byte.
ToHexUpper(v) ==
    IF v = <<>> THEN <<>>
    ELSE <<HexDigit(Head(v) \div 16), HexDigit(Head(v) % 16)>> \o ToHexUpper(Tail(v))

\* QString::fromUtf8: a byte below 128 is its own code point, a byte that
\* starts no valid sequence decodes to U+FFFD.
FromUtf8(v) == [i \in 1..Len(v) |-> IF v[i] < 128 THEN v[i] ELSE 65533]

(***************************************************************************)
(* List entries and their texts.                                           *)
(***************************************************************************)

\* An entry of deviceListWidget.  src is a ghost field: the device the entry
\* was added for (NoDevice for placeholders, headers and services).
DeviceItem(t, d) == [text |-> t, src |-> d]

\* The entry text deviceDiscovered builds: 'name (address)'.
DeviceItemText(device) ==
    (IF device.name = <<>> THEN UnknownNameText ELSE device.name)
      \o <<" ", "(">> \o AddressToString(device.addr) \o <<")">>

NoChar == Char(NullUuid, 0, NullUuid, {}, FALSE)

\* "  Char: %1 (%2) - Props: %3"; name() is empty for these UUIDs, so %1 is
\* the UUID text.
CharInfoText(c) ==
    [fmt |-> "info", name |-> UuidToString(c.uuid), uuid |-> UuidToString(c.uuid),
     props |-> c.props, hex |-> <<>>, utf8 |-> <<>>]

\* "  Char: %1 (%2)\n  Value: %3 (Hex) / %4".
CharValueText(c, v) ==
    [fmt |-> "value", name |-> UuidToString(c.uuid), uuid |-> UuidToString(c.uuid),
     props |-> {}, hex |-> ToHexUpper(v), utf8 |-> FromUtf8(v)]

\* An entry of characteristicListWidget.  char is a ghost field: the
\* characteristic the entry was created for.
CharItem(c) == [text |-> CharInfoText(c), char |-> c]

EmptyMap == [x \in {} |-> x]

\* operator< on QLowEnergyCharacteristic compares the UUIDs only, so the
\* QMap holds one entry per UUID.  QMap::insert on an equivalent key keeps
\* the stored key and replaces the value.
MapInsert(map, c, item) ==
    IF c.uuid \in DOMAIN map
    THEN [map EXCEPT ![c.uuid].item = item]
    ELSE map @@ (c.uuid :> [key |-> c, item |-> item])

RECURSIVE InsertAll(_, _, _)
\* The loop that adds one list item per characteristic and stores it in
\* m_characteristicItems, from row i on.
InsertAll(map, cs, i) ==
    IF i > Len(cs) THEN map
    ELSE InsertAll(MapInsert(map, cs[i], i), cs, i + 1)

\* QMap::contains(characteristic).
MapContains(map, c) == c.uuid \in DOMAIN map

SeqToSet(q) == {q[i] : i \in 1..Len(q)}

\* The characteristics the display loop reads: those with the Read property.
ReadableOf(cs) == {c \in SeqToSet(cs) : "Read" \in c.props}

\* The characteristics whose CCCD the display loop writes: Notify or
\* Indicate property and a valid CCCD descriptor.
NotifiableOf(cs) == {c \in SeqToSet(cs) : "Notify" \in c.props /\ c.cccd}

\* A request handed to the Bluetooth stack, with the state of its target at
\* the time of the call.
Request(op, s, sstate, cstate, c) ==
    [op |-> op, svc |-> s, svcState |-> sstate, ctrlState |-> cstate, char |-> c]

(***************************************************************************)
(* State.                                                                  *)
(***************************************************************************)
VARIABLES
    deviceListWidget,          \* entries of the left list
    deviceSel,                 \* selected row of the left list, 0 for none
    characteristicListWidget,  \* entries of the right list
    charSel,                   \* selected row of the right list, 0 for none
    scanButton,                \* enabled flags of the buttons
    connectButton,
    readCharButton,
    statusLabel,
    leController,              \* TRUE when the pointer is not null
    m_currentDevice,
    m_serviceUuids,
    m_services,                \* service UUID -> state of the service object
    m_characteristicItems,     \* characteristic UUID -> [key, item]
    m_currentService,          \* UUID of the current service object or NullUuid
    agentActive,               \* discoveryAgent->isActive()
    discoveredDevices,         \* discoveryAgent->discoveredDevices(), as a set
    ctrlState,                 \* leController->state()
    serviceList,               \* services the controller has discovered
    ctrlRemote,                \* the device the controller was created for
    pendingReads,              \* accepted reads not answered yet
    notifying,                 \* characteristics with notifications enabled
    modal,                     \* slots suspended in a message box, innermost last
    crashed,                   \* the process has died
    lastEvent,                 \* ghost: the slot that ran last
    shown,                     \* ghost: message boxes the last step opened
    requests,                  \* ghost: stack requests the last step issued
    scanReported,              \* ghost: devices reported since the last startScan
                               \*        of the running scan
    connectSrc,                \* ghost: device of the entry the live controller
                               \*        was created from
    svcEvents                  \* ghost: serviceDiscovered events of the live
                               \*        controller since connectToDevice

uiVars == <<deviceListWidget, deviceSel, characteristicListWidget, charSel,
            scanButton, connectButton, readCharButton, statusLabel>>

appVars == <<leController, m_currentDevice, m_serviceUuids, m_services,
             m_characteristicItems, m_currentService>>

stackVars == <<agentActive, discoveredDevices, ctrlState, serviceList,
               ctrlRemote, pendingReads, notifying>>

ghostVars == <<lastEvent, shown, requests, scanReported, connectSrc, svcEvents>>

vars == <<uiVars, appVars, stackVars, modal, crashed, ghostVars>>

Event(n, e, c, v) == [name |-> n, err |-> e, char |-> c, val |-> v]

Ev(n) == Event(n, "", NoChar, <<>>)

\* The user can operate the window: no message box is open.
UserCanAct == modal = <<>> /\ ~crashed

\* MainWindow::MainWindow.
Init ==
    /\ deviceListWidget = <<>>
    /\ deviceSel = 0
    /\ characteristicListWidget = <<>>
    /\ charSel = 0
    /\ scanButton = TRUE
    /\ connectButton = FALSE
    /\ readCharButton = FALSE
    /\ statusLabel = <<"Status: Idle">>
    /\ leController = FALSE
    /\ m_currentDevice = InvalidDevice
    /\ m_serviceUuids = <<>>
    /\ m_services = EmptyMap
    /\ m_characteristicItems = EmptyMap
    /\ m_currentService = NullUuid
    /\ agentActive = FALSE
    /\ discoveredDevices = {}
    /\ ctrlState = "UnconnectedState"
    /\ serviceList = <<>>
    /\ ctrlRemote = InvalidDevice
    /\ pendingReads = {}
    /\ notifying = {}
    /\ modal = <<>>
    /\ crashed = FALSE
    /\ lastEvent = Ev("init")
    /\ shown = <<>>
    /\ requests = {}
    /\ scanReported = {}
    /\ connectSrc = NoDevice
    /\ svcEvents = <<>>

(***************************************************************************)
(* Scan slots.                                                             *)
(***************************************************************************)

\* Scan button clicked.  discoveryAgent->start() does nothing while the
\* agent is active; otherwise it forgets the devices of the previous scan.
startScan ==
    /\ UserCanAct
    /\ scanButton
    /\ deviceListWidget' = <<>>
    /\ deviceSel' = 0
    /\ characteristicListWidget' = <<>>
    /\ charSel' = 0
    /\ statusLabel' = <<"Status: Scanning...">>
    /\ scanButton' = FALSE
    /\ connectButton' = FALSE
    /\ readCharButton' = FALSE
    /\ m_serviceUuids' = <<>>
    /\ m_services' = EmptyMap
    /\ m_characteristicItems' = EmptyMap
    /\ m_currentService' = NullUuid
    /\ leController' = FALSE
    /\ ctrlState' = "UnconnectedState"
    /\ serviceList' = <<>>
    /\ ctrlRemote' = InvalidDevice
    /\ pendingReads' = {}
    /\ notifying' = {}
    /\ agentActive' = TRUE
    /\ discoveredDevices' = IF agentActive THEN discoveredDevices ELSE {}
    /\ lastEvent' = Ev("startScan")
    /\ shown' = <<>>
    /\ requests' = {}
    /\ scanReported' = {}
    /\ connectSrc' = NoDevice
    /\ svcEvents' = <<>>
    /\ UNCHANGED <<m_currentDevice, modal, crashed>>

\* The agent reports a device it has not reported in this scan.
deviceDiscovered(device) ==
    /\ ~crashed
    /\ agentActive
    /\ \A d \in discoveredDevices : d.addr # device.addr
    /\ discoveredDevices' = discoveredDevices \cup {device}
    /\ scanReported' = scanReported \cup {device}
    /\ deviceListWidget' =
          IF device.le
          THEN Append(deviceListWidget, DeviceItem(DeviceItemText(device), device))
          ELSE deviceListWidget
    /\ lastEvent' = Ev("deviceDiscovered")
    /\ shown' = <<>>
    /\ requests' = {}
    /\ UNCHANGED <<deviceSel, characteristicListWidget, charSel, scanButton,
                   connectButton, readCharButton, statusLabel, appVars,
                   agentActive, ctrlState, serviceList, ctrlRemote, pendingReads, notifying,
                   modal, crashed, connectSrc, svcEvents>>

\* The agent finished the scan.
scanFinished ==
    /\ ~crashed
    /\ agentActive
    /\ agentActive' = FALSE
    /\ scanReported' = {}
    /\ statusLabel' = <<"Status: Scan Finished.">>
    /\ scanButton' = TRUE
    /\ IF Len(deviceListWidget) = 0
       THEN /\ deviceListWidget' = <<DeviceItem(NoDevicesText, NoDevice)>>
            /\ connectButton' = FALSE
       ELSE /\ deviceListWidget' = deviceListWidget
            /\ connectButton' = TRUE
    /\ lastEvent' = Ev("scanFinished")
    /\ shown' = <<>>
    /\ requests' = {}
    /\ UNCHANGED <<deviceSel, characteristicListWidget, charSel, readCharButton,
                   appVars, discoveredDevices, ctrlState, serviceList, ctrlRemote,
                   pendingReads, notifying, modal, crashed, connectSrc, svcEvents>>

ScanErrors ==
    {"InputOutputError", "PoweredOffError", "MissingPermissionsError",
     "InvalidBluetoothAdapterError", "UnknownError"}

\* Variant: the switch without the MissingPermissionsError case.
ScanErrorStringNoPermissionCase(error) ==
    CASE error = "InputOutputError" -> "I/O Error (check permissions/hardware)."
      [] error = "PoweredOffError" -> "Bluetooth is powered off."
      [] OTHER -> "Unknown error."

\* The switch of scanError.
ScanErrorString(error) ==
    CASE error = "InputOutputError" -> "I/O Error (check permissions/hardware)."
      [] error = "PoweredOffError" -> "Bluetooth is powered off."
      [] error = "MissingPermissionsError" -> "Missing Bluetooth permissions."
      [] OTHER -> "Unknown error."

\* The agent reports an error, which ends the scan.  The slot ends in a
\* message box.
scanError(error) ==
    /\ ~crashed
    /\ agentActive
    /\ agentActive' = FALSE
    /\ scanReported' = {}
    /\ statusLabel' = <<"Status: Scan Error!">>
    /\ scanButton' = TRUE
    /\ connectButton' = FALSE
    /\ readCharButton' = FALSE
    /\ shown' = << <<"Bluetooth Error", ScanErrorString(error)>> >>
    /\ modal' = Append(modal, "scanError")
    /\ lastEvent' = Event("scanError", error, NoChar, <<>>)
    /\ requests' = {}
    /\ UNCHANGED <<deviceListWidget, deviceSel, characteristicListWidget, charSel,
                   appVars, discoveredDevices, ctrlState, serviceList, ctrlRemote,
                   pendingReads, notifying, crashed, connectSrc, svcEvents>>

(***************************************************************************)
(* Selection lambda of deviceListWidget and the calls that trigger it.     *)
(***************************************************************************)

\* enableConnect of the itemSelectionChanged lambda, for the list and the
\* selected row the lambda sees.
EnableConnect(list, sel) ==
    /\ sel > 0
    /\ ~Contains(list[sel].text, <<"N","o">>)
    /\ ~Contains(list[sel].text, <<"f","o","u","n","d">>)

\* QListWidget::clear() clears the selection model before it deletes the
\* items, so deviceListWidget->clear() runs the selection lambda when a row
\* was selected.  The lambda then sees an empty selection: Connect and Read
\* are disabled, the characteristic list is cleared and onServiceSelected
\* returns at once.
ClearRunsLambda == deviceSel # 0

\* controllerStateChanged: the label for a controller state.
StateLabel(state) ==
    CASE state = "UnconnectedState" -> <<"Status: Unconnected.">>
      [] state = "ConnectingState" -> <<"Status: Connecting...">>
      [] state = "ConnectedState" -> <<"Status: Connected, Discovering Services...">>
      [] state = "DiscoveringState" -> <<"Status: Discovering Services...">>
      [] state = "DiscoveredState" -> <<"Status: Services Discovered.">>
      [] state = "ClosingState" -> <<"Status: Disconnecting...">>
      [] OTHER -> <<"Status: Unknown state.">>

(***************************************************************************)
(* Connection slots.                                                       *)
(***************************************************************************)

\* Variant: m_currentDevice is not reset before the loop, so a failed search
\* leaves the device of the previous connection.
FindDeviceNoReset(devices, address) ==
    IF \E d \in devices : d.addr = address
    THEN CHOOSE d \in devices : d.addr = address
    ELSE m_currentDevice

\* The loop of connectToDevice over discoveredDevices(): the device with the
\* address, or an invalid device.  The agent holds one device per address,
\* so the order of its list does not matter.
FindDevice(devices, address) ==
    IF \E d \in devices : d.addr = address
    THEN CHOOSE d \in devices : d.addr = address
    ELSE InvalidDevice

\* The address connectToDevice reads from an entry text.
EntryAddress(text) == ParseAddress(RemoveChar(SectionLast(text, "("), ")"))

\* Connect button clicked.
connectToDevice ==
    /\ UserCanAct
    /\ connectButton
    /\ lastEvent' = Ev("connectToDevice")
    /\ IF deviceSel = 0
       THEN /\ shown' = << <<"No Device Selected",
                             "Please select a device from the list to connect.">> >>
            /\ modal' = Append(modal, "connectToDevice")
            /\ requests' = {}
            /\ UNCHANGED <<uiVars, appVars, stackVars, crashed, scanReported, connectSrc, svcEvents>>
       ELSE LET device == FindDevice(discoveredDevices,
                                     EntryAddress(deviceListWidget[deviceSel].text))
            IN  IF device.addr = NullAddress
                THEN /\ m_currentDevice' = InvalidDevice
                     /\ shown' = << <<"Error",
                                      "Could not find selected device information.">> >>
                     /\ modal' = Append(modal, "connectToDevice")
                     /\ requests' = {}
                     /\ UNCHANGED <<uiVars, leController, m_serviceUuids, m_services,
                                    m_characteristicItems, m_currentService,
                                    stackVars, crashed, scanReported, connectSrc, svcEvents>>
                ELSE /\ m_currentDevice' = device
                     /\ m_services' = EmptyMap
                     /\ m_serviceUuids' = <<>>
                     /\ m_characteristicItems' = EmptyMap
                     /\ m_currentService' = NullUuid
                     /\ characteristicListWidget' = <<>>
                     /\ charSel' = 0
                     /\ readCharButton' = IF charSel # 0 THEN FALSE ELSE readCharButton
                     /\ leController' = TRUE
                     /\ ctrlState' = "ConnectingState"
                     /\ serviceList' = <<>>
                     /\ ctrlRemote' = device
                     /\ pendingReads' = {}
                     /\ notifying' = {}
                     /\ statusLabel' = StateLabel("ConnectingState")
                     /\ connectButton' = FALSE
                     /\ scanButton' = FALSE
                     /\ shown' = <<>>
                     /\ requests' = {Request("connectToDevice", NullUuid, "",
                                             "UnconnectedState", NoChar)}
                     /\ connectSrc' = deviceListWidget[deviceSel].src
                     /\ svcEvents' = <<>>
                     /\ UNCHANGED <<deviceListWidget, deviceSel, agentActive,
                                    discoveredDevices, modal, crashed, scanReported>>

\* The controller reports the connection; the slot starts the service
\* discovery.
deviceConnected ==
    /\ ~crashed
    /\ leController
    /\ ctrlState = "ConnectingState"
    /\ ctrlState' = "DiscoveringState"
    /\ statusLabel' = StateLabel("DiscoveringState")
    /\ requests' = {Request("discoverServices", NullUuid, "", "ConnectedState", NoChar)}
    /\ lastEvent' = Ev("deviceConnected")
    /\ shown' = <<>>
    /\ UNCHANGED <<deviceListWidget, deviceSel, characteristicListWidget, charSel,
                   scanButton, connectButton, readCharButton, appVars, agentActive,
                   discoveredDevices, serviceList, ctrlRemote, pendingReads, notifying,
                   modal, crashed, scanReported, connectSrc, svcEvents>>

\* The controller reports the end of an established connection.
deviceDisconnected ==
    /\ ~crashed
    /\ leController
    /\ ctrlState \in {"DiscoveringState", "DiscoveredState"}
    /\ statusLabel' = <<"Status: Disconnected.">>
    /\ connectButton' = IF ClearRunsLambda THEN EnableConnect(<<>>, 0) ELSE TRUE
    /\ scanButton' = TRUE
    /\ readCharButton' = FALSE
    /\ leController' = FALSE
    /\ ctrlState' = "UnconnectedState"
    /\ serviceList' = <<>>
    /\ ctrlRemote' = InvalidDevice
    /\ pendingReads' = {}
    /\ notifying' = {}
    /\ m_services' = EmptyMap
    /\ m_serviceUuids' = <<>>
    /\ m_characteristicItems' = EmptyMap
    /\ m_currentService' = NullUuid
    /\ deviceListWidget' = <<>>
    /\ deviceSel' = 0
    /\ characteristicListWidget' = <<>>
    /\ charSel' = 0
    /\ lastEvent' = Ev("deviceDisconnected")
    /\ shown' = <<>>
    /\ requests' = {}
    /\ connectSrc' = NoDevice
    /\ svcEvents' = <<>>
    /\ UNCHANGED <<m_currentDevice, agentActive, discoveredDevices, modal, crashed,
                   scanReported>>

\* The controller reports the next service of the peripheral.
serviceDiscovered ==
    /\ ~crashed
    /\ leController
    /\ ctrlState = "DiscoveringState"
    /\ Len(serviceList) < Len(GattServices(ctrlRemote.addr))
    /\ LET uuid == GattServices(ctrlRemote.addr)[Len(serviceList) + 1]
       IN  /\ serviceList' = Append(serviceList, uuid)
           /\ m_serviceUuids' = Append(m_serviceUuids, uuid)
           /\ svcEvents' = Append(svcEvents, uuid)
    /\ lastEvent' = Ev("serviceDiscovered")
    /\ shown' = <<>>
    /\ requests' = {}
    /\ UNCHANGED <<uiVars, leController, m_currentDevice, m_services,
                   m_characteristicItems, m_currentService, agentActive,
                   discoveredDevices, ctrlState, ctrlRemote, pendingReads,
                   notifying, modal, crashed, scanReported, connectSrc>>

\* Variant: each service entry is inserted right after the header instead of
\* at the end.
ServiceEntriesInserted(uuids) ==
    <<DeviceItem(ServicesHeaderText, NoDevice)>>
      \o (IF uuids = <<>>
          THEN <<DeviceItem(NoServicesText, NoDevice)>>
          ELSE [i \in 1..Len(uuids) |->
                  DeviceItem(UuidToString(uuids[Len(uuids) + 1 - i]), NoDevice)])

\* The entries serviceDiscoveryFinished adds after clearing the list.
ServiceEntries(uuids) ==
    <<DeviceItem(ServicesHeaderText, NoDevice)>>
      \o (IF uuids = <<>>
          THEN <<DeviceItem(NoServicesText, NoDevice)>>
          ELSE [i \in 1..Len(uuids) |-> DeviceItem(UuidToString(uuids[i]), NoDevice)])

\* The controller reports the end of the service discovery.
serviceDiscoveryFinished ==
    /\ ~crashed
    /\ leController
    /\ ctrlState = "DiscoveringState"
    /\ Len(serviceList) = Len(GattServices(ctrlRemote.addr))
    /\ ctrlState' = "DiscoveredState"
    /\ statusLabel' = <<"Status: Services Discovered. Select a service.">>
    /\ deviceListWidget' = ServiceEntries(m_serviceUuids)
    /\ deviceSel' = 0
    /\ characteristicListWidget' =
          IF ClearRunsLambda THEN <<>> ELSE characteristicListWidget
    /\ charSel' = IF ClearRunsLambda THEN 0 ELSE charSel
    /\ readCharButton' = IF ClearRunsLambda THEN FALSE ELSE readCharButton
    /\ connectButton' = FALSE
    /\ scanButton' = TRUE
    /\ lastEvent' = Ev("serviceDiscoveryFinished")
    /\ shown' = <<>>
    /\ requests' = {}
    /\ UNCHANGED <<appVars, agentActive, discoveredDevices, serviceList, ctrlRemote,
                   pendingReads, notifying, modal, crashed, scanReported, connectSrc, svcEvents>>

ControllerErrors ==
    {"UnknownError", "InvalidBluetoothAdapterError", "ConnectionError",
     "AdvertisingError", "RemoteHostClosedError", "AuthorizationError"}

\* The switch of controllerError.
ControllerErrorString(error) ==
    CASE error = "UnknownError" -> "Unknown error."
      [] error = "InvalidBluetoothAdapterError" -> "Invalid Bluetooth adapter."
      [] error = "ConnectionError" -> "Connection error."
      [] error = "AdvertisingError" -> "Advertising error."
      [] error = "RemoteHostClosedError" -> "Remote host closed connection."
      [] OTHER -> "Other error."

\* The controller reports an error and drops to UnconnectedState.  The slot
\* runs up to its message box.
controllerError(error) ==
    /\ ~crashed
    /\ leController
    /\ ctrlState # "UnconnectedState"
    /\ ctrlState' = "UnconnectedState"
    /\ pendingReads' = {}
    /\ notifying' = {}
    /\ statusLabel' = <<"Status: Controller Error!">>
    /\ connectButton' = TRUE
    /\ scanButton' = TRUE
    /\ readCharButton' = FALSE
    /\ shown' = << <<"BLE Controller Error", ControllerErrorString(error)>> >>
    /\ modal' = Append(modal, "controllerError")
    /\ lastEvent' = Event("controllerError", error, NoChar, <<>>)
    /\ requests' = {}
    /\ UNCHANGED <<deviceListWidget, deviceSel, characteristicListWidget, charSel,
                   appVars, agentActive, discoveredDevices, serviceList, ctrlRemote, crashed,
                   scanReported, connectSrc, svcEvents>>

\* The message box of controllerError is dismissed: the slot cleans up and
\* returns.
controllerErrorReturn ==
    /\ ~crashed
    /\ modal # <<>>
    /\ modal[Len(modal)] = "controllerError"
    /\ modal' = SubSeq(modal, 1, Len(modal) - 1)
    /\ leController' = FALSE
    /\ ctrlState' = "UnconnectedState"
    /\ serviceList' = <<>>
    /\ ctrlRemote' = InvalidDevice
    /\ m_services' = EmptyMap
    /\ m_serviceUuids' = <<>>
    /\ m_characteristicItems' = EmptyMap
    /\ m_currentService' = NullUuid
    /\ deviceListWidget' = <<>>
    /\ deviceSel' = 0
    /\ connectButton' = IF ClearRunsLambda THEN EnableConnect(<<>>, 0) ELSE connectButton
    /\ readCharButton' =
          IF ClearRunsLambda \/ charSel # 0 THEN FALSE ELSE readCharButton
    /\ characteristicListWidget' = <<>>
    /\ charSel' = 0
    /\ lastEvent' = Ev("controllerErrorReturn")
    /\ shown' = <<>>
    /\ requests' = {}
    /\ connectSrc' = NoDevice
    /\ svcEvents' = <<>>
    /\ UNCHANGED <<scanButton, statusLabel, m_currentDevice, agentActive,
                   discoveredDevices, pendingReads, notifying, crashed, scanReported>>

\* A message box of a slot that has nothing left to do is dismissed.
messageBoxClosed ==
    /\ ~crashed
    /\ modal # <<>>
    /\ modal[Len(modal)] # "controllerError"
    /\ modal' = SubSeq(modal, 1, Len(modal) - 1)
    /\ lastEvent' = Ev("messageBoxClosed")
    /\ shown' = <<>>
    /\ requests' = {}
    /\ UNCHANGED <<uiVars, appVars, stackVars, crashed, scanReported, connectSrc, svcEvents>>

(***************************************************************************)
(* Service and characteristic slots.                                       *)
(***************************************************************************)

\* The display loop shared by onServiceSelected and
\* serviceDetailsDiscovered: both lists of items are rebuilt for the
\* characteristics of service s, readable characteristics are read and
\* notifications are enabled, all on service s.
DisplayCharacteristics(s, sstate) ==
    LET cs == GattCharacteristics(s)
    IN  /\ characteristicListWidget' = [i \in 1..Len(cs) |-> CharItem(cs[i])]
        /\ m_characteristicItems' = InsertAll(EmptyMap, cs, 1)
        /\ pendingReads' = pendingReads \cup ReadableOf(cs)
        /\ notifying' = notifying \cup NotifiableOf(cs)
        /\ requests' =
              {Request("readCharacteristic", s, sstate, ctrlState, c) : c \in ReadableOf(cs)}
                \cup {Request("writeDescriptor", s, sstate, ctrlState, c) : c \in NotifiableOf(cs)}

\* onServiceSelected, entered from the selection lambda for the newly
\* selected row (0 for none); the lambda has cleared the characteristic
\* list.  createServiceObject returns null for a UUID that is not in the
\* controller's service list.
onServiceSelected(row) ==
    IF row = 0 \/ ~leController \/ ctrlState # "DiscoveredState"
    THEN /\ characteristicListWidget' = <<>>
         /\ requests' = {}
         /\ UNCHANGED <<m_services, m_currentService, m_characteristicItems,
                        statusLabel, pendingReads, notifying>>
    ELSE LET selectedServiceText == deviceListWidget[row].text
             selectedUuid == ParseUuid(SplitFirst(selectedServiceText))
         IN  IF selectedUuid \in DOMAIN m_services
             THEN /\ m_currentService' = selectedUuid
                  /\ UNCHANGED <<m_services, statusLabel>>
                  /\ IF m_services[selectedUuid] = "RemoteServiceDiscovered"
                     THEN DisplayCharacteristics(selectedUuid, m_services[selectedUuid])
                     ELSE /\ characteristicListWidget' = <<>>
                          /\ requests' = {}
                          /\ UNCHANGED <<m_characteristicItems, pendingReads, notifying>>
             ELSE IF selectedUuid \in SeqToSet(serviceList)
                  THEN /\ m_services' = m_services @@ (selectedUuid :> "RemoteServiceDiscovering")
                       /\ m_currentService' = selectedUuid
                       /\ characteristicListWidget' = <<>>
                       /\ m_characteristicItems' = EmptyMap
                       /\ statusLabel' = <<"Status: Discovering characteristics for %1...",
                                           selectedServiceText>>
                       /\ requests' = {Request("discoverDetails", selectedUuid,
                                               "RemoteService", ctrlState, NoChar)}
                       /\ UNCHANGED <<pendingReads, notifying>>
                  ELSE /\ statusLabel' = <<"Status: Failed to create service object.">>
                       /\ m_currentService' = NullUuid
                       /\ characteristicListWidget' = <<>>
                       /\ requests' = {}
                       /\ UNCHANGED <<m_services, m_characteristicItems,
                                      pendingReads, notifying>>

\* The user selects another row of deviceListWidget: the
\* itemSelectionChanged lambda.
deviceItemSelectionChanged(row) ==
    /\ UserCanAct
    /\ row \in 1..Len(deviceListWidget)
    /\ row # deviceSel
    /\ deviceSel' = row
    /\ connectButton' = EnableConnect(deviceListWidget, row)
    /\ readCharButton' = FALSE
    /\ charSel' = 0
    /\ IF leController /\ ctrlState = "DiscoveredState"
       THEN onServiceSelected(row)
       ELSE /\ characteristicListWidget' = <<>>
            /\ requests' = {}
            /\ UNCHANGED <<m_services, m_currentService, m_characteristicItems,
                           statusLabel, pendingReads, notifying>>
    /\ lastEvent' = Ev("deviceItemSelectionChanged")
    /\ shown' = <<>>
    /\ UNCHANGED <<deviceListWidget, scanButton, leController, m_currentDevice,
                   m_serviceUuids, agentActive, discoveredDevices, ctrlState,
                   serviceList, ctrlRemote, modal, crashed, scanReported, connectSrc, svcEvents>>

\* The user selects another row of characteristicListWidget.
charItemSelectionChanged(row) ==
    /\ UserCanAct
    /\ row \in 1..Len(characteristicListWidget)
    /\ row # charSel
    /\ charSel' = row
    /\ readCharButton' = TRUE
    /\ lastEvent' = Ev("charItemSelectionChanged")
    /\ shown' = <<>>
    /\ requests' = {}
    /\ UNCHANGED <<deviceListWidget, deviceSel, characteristicListWidget, scanButton,
                   connectButton, statusLabel, appVars, stackVars, modal, crashed,
                   scanReported, connectSrc, svcEvents>>

\* A service object finishes its detail discovery: stateChanged with
\* RemoteServiceDiscovered, sender() is the service object of uuid.
serviceDetailsDiscovered(uuid) ==
    /\ ~crashed
    /\ leController
    /\ ctrlState = "DiscoveredState"
    /\ uuid \in DOMAIN m_services
    /\ m_services[uuid] = "RemoteServiceDiscovering"
    /\ m_services' = [m_services EXCEPT ![uuid] = "RemoteServiceDiscovered"]
    /\ statusLabel' = <<"Status: Characteristics discovered for %1.", UuidToString(uuid)>>
    /\ charSel' = 0
    /\ readCharButton' = IF charSel # 0 THEN FALSE ELSE readCharButton
    /\ DisplayCharacteristics(uuid, "RemoteServiceDiscovered")
    /\ lastEvent' = Ev("serviceDetailsDiscovered")
    /\ shown' = <<>>
    /\ UNCHANGED <<deviceListWidget, deviceSel, scanButton, connectButton,
                   leController, m_currentDevice, m_serviceUuids, m_currentService,
                   agentActive, discoveredDevices, ctrlState, serviceList, ctrlRemote,
                   modal, crashed, scanReported, connectSrc, svcEvents>>

\* The body shared by characteristicChanged and characteristicRead.  The
\* item is found by UUID.  setText on a deleted item is undefined: the
\* process dies or the write goes unnoticed.
UpdateItem(characteristic, value) ==
    IF MapContains(m_characteristicItems, characteristic)
    THEN LET item == m_characteristicItems[characteristic.uuid].item
         IN  IF item \in 1..Len(characteristicListWidget)
             THEN /\ characteristicListWidget' =
                        [characteristicListWidget EXCEPT
                           ![item].text = CharValueText(characteristic, value)]
                  /\ crashed' = crashed
             ELSE /\ characteristicListWidget' = characteristicListWidget
                  /\ crashed' \in BOOLEAN
    ELSE UNCHANGED <<characteristicListWidget, crashed>>

\* A notification arrives for a characteristic whose CCCD was written.
characteristicChanged(characteristic, newValue) ==
    /\ ~crashed
    /\ characteristic \in notifying
    /\ UpdateItem(characteristic, newValue)
    /\ lastEvent' = Event("characteristicChanged", "", characteristic, newValue)
    /\ shown' = <<>>
    /\ requests' = {}
    /\ UNCHANGED <<deviceListWidget, deviceSel, charSel, scanButton, connectButton,
                   readCharButton, statusLabel, appVars, stackVars, modal,
                   scanReported, connectSrc, svcEvents>>

\* The answer to an accepted read arrives.
characteristicRead(characteristic, value) ==
    /\ ~crashed
    /\ characteristic \in pendingReads
    /\ pendingReads' = pendingReads \ {characteristic}
    /\ UpdateItem(characteristic, value)
    /\ lastEvent' = Event("characteristicRead", "", characteristic, value)
    /\ shown' = <<>>
    /\ requests' = {}
    /\ UNCHANGED <<deviceListWidget, deviceSel, charSel, scanButton, connectButton,
                   readCharButton, statusLabel, appVars, agentActive,
                   discoveredDevices, ctrlState, serviceList, ctrlRemote, notifying, modal,
                   scanReported, connectSrc, svcEvents>>

\* Read button clicked.  The service accepts the read when it is discovered
\* and owns the characteristic; the status label is set in either case.
readCharClicked ==
    /\ UserCanAct
    /\ readCharButton
    /\ lastEvent' = Ev("readCharClicked")
    /\ IF charSel = 0
       THEN /\ shown' = << <<"No Characteristic Selected",
                             "Please select a characteristic to read.">> >>
            /\ modal' = Append(modal, "readChar")
            /\ requests' = {}
            /\ UNCHANGED <<statusLabel, pendingReads>>
       ELSE LET found == {u \in DOMAIN m_characteristicItems :
                             m_characteristicItems[u].item = charSel}
            IN  IF found = {}
                THEN /\ shown' = <<>>
                     /\ requests' = {}
                     /\ UNCHANGED <<modal, statusLabel, pendingReads>>
                ELSE LET key == m_characteristicItems[CHOOSE u \in found : TRUE].key
                     IN  IF "Read" \in key.props
                         THEN IF m_currentService # NullUuid
                              THEN /\ requests' =
                                        {Request("readCharacteristic", m_currentService,
                                                 m_services[m_currentService],
                                                 ctrlState, key)}
                                   /\ pendingReads' =
                                        IF /\ m_services[m_currentService] = "RemoteServiceDiscovered"
                                           /\ key.svc = m_currentService
                                        THEN pendingReads \cup {key}
                                        ELSE pendingReads
                                   /\ statusLabel' = <<"Status: Reading characteristic %1",
                                                       UuidToString(key.uuid)>>
                                   /\ shown' = <<>>
                                   /\ UNCHANGED modal
                              ELSE /\ shown' = <<>>
                                   /\ requests' = {}
                                   /\ UNCHANGED <<modal, statusLabel, pendingReads>>
                         ELSE /\ shown' = << <<"Not Readable",
                                               "The selected characteristic is not readable.">> >>
                              /\ modal' = Append(modal, "readChar")
                              /\ requests' = {}
                              /\ UNCHANGED <<statusLabel, pendingReads>>
    /\ UNCHANGED <<deviceListWidget, deviceSel, characteristicListWidget, charSel,
                   scanButton, connectButton, readCharButton, appVars, agentActive,
                   discoveredDevices, ctrlState, serviceList, ctrlRemote, notifying, crashed,
                   scanReported, connectSrc, svcEvents>>

Next ==
    \/ startScan
    \/ \E device \in DeviceUniverse : deviceDiscovered(device)
    \/ scanFinished
    \/ \E error \in ScanErrors : scanError(error)
    \/ connectToDevice
    \/ deviceConnected
    \/ deviceDisconnected
    \/ serviceDiscovered
    \/ serviceDiscoveryFinished
    \/ \E error \in ControllerErrors : controllerError(error)
    \/ controllerErrorReturn
    \/ messageBoxClosed
    \/ \E row \in 1..Len(deviceListWidget) : deviceItemSelectionChanged(row)
    \/ \E row \in 1..Len(characteristicListWidget) : charItemSelectionChanged(row)
    \/ \E uuid \in ServiceUuids : serviceDetailsDiscovered(uuid)
    \/ \E c \in AllCharacteristics, v \in Values : characteristicChanged(c, v)
    \/ \E c \in AllCharacteristics, v \in Values : characteristicRead(c, v)
    \/ readCharClicked

Spec == Init /\ [][Next]_vars

(***************************************************************************)
(* Properties.                                                             *)
(***************************************************************************)

\* C1: when characteristicRead or characteristicChanged is delivered for a
\* characteristic c with value v, the item that displays c shows v and no
\* item that displays another characteristic is modified.
C1_ValueWrittenOnlyToOwnItem ==
    [][lastEvent'.name \in {"characteristicRead", "characteristicChanged"} =>
         /\ Len(characteristicListWidget') = Len(characteristicListWidget)
         /\ \A i \in 1..Len(characteristicListWidget) :
               IF characteristicListWidget[i].char = lastEvent'.char
               THEN characteristicListWidget'[i].text =
                       CharValueText(lastEvent'.char, lastEvent'.val)
               ELSE characteristicListWidget'[i] = characteristicListWidget[i]]_vars

\* C2: the address read back from the entry text of every listed device is
\* that device's address, and a live controller was created for the device
\* whose entry was selected.
C2_EntryAddressIsDeviceAddress ==
    /\ \A i \in 1..Len(deviceListWidget) :
          deviceListWidget[i].src # NoDevice =>
             EntryAddress(deviceListWidget[i].text) = deviceListWidget[i].src.addr
    /\ leController => (connectSrc # NoDevice /\ ctrlRemote = connectSrc)

\* C2 witness: a controller exists for a device whose name has a space and
\* parentheses.
C2_Witness ==
    /\ leController
    /\ connectSrc.name = <<"a"," ","(","b",")">>
    /\ ctrlRemote.addr = "A1"

\* C3: discoverServices is requested only by the connected slot of the live
\* controller, discoverDetails only while the controller is in
\* DiscoveredState, and reads and CCCD writes only on a service that has
\* reached RemoteServiceDiscovered.
C3_RequestsInLifecycleOrder ==
    \A r \in requests :
       /\ r.op = "discoverServices" =>
             (lastEvent.name = "deviceConnected" /\ leController)
       /\ r.op = "discoverDetails" => r.ctrlState = "DiscoveredState"
       /\ r.op \in {"readCharacteristic", "writeDescriptor"} =>
             r.svcState = "RemoteServiceDiscovered"

\* C4: right after serviceDiscoveryFinished the device list is the header
\* followed by one entry per serviceDiscovered event since connectToDevice,
\* in order, or by the single 'No services found' entry when there was none.
C4_ServiceListAfterDiscovery ==
    lastEvent.name = "serviceDiscoveryFinished" =>
       /\ Len(deviceListWidget) >= 2
       /\ deviceListWidget[1].text = ServicesHeaderText
       /\ IF svcEvents = <<>>
          THEN /\ Len(deviceListWidget) = 2
               /\ deviceListWidget[2].text = NoServicesText
          ELSE /\ Len(deviceListWidget) = 1 + Len(svcEvents)
               /\ \A i \in 1..Len(svcEvents) :
                     deviceListWidget[i + 1].text = UuidToString(svcEvents[i])

\* C4 witness: a discovery that reported two services has finished.
C4_Witness ==
    /\ lastEvent.name = "serviceDiscoveryFinished"
    /\ svcEvents = <<"180a", "180f">>

\* C5: while a scan runs the device list holds exactly one entry for each
\* Low Energy device reported since startScan and nothing else; scanFinished
\* leaves a non-empty list, with the placeholder as its only entry when it
\* found the list empty.
C5_ListShowsReportedDevices ==
    /\ agentActive =>
          /\ Len(deviceListWidget) = Cardinality({d \in scanReported : d.le})
          /\ {deviceListWidget[i].src : i \in 1..Len(deviceListWidget)}
                = {d \in scanReported : d.le}
          /\ \A i \in 1..Len(deviceListWidget) :
                deviceListWidget[i].text = DeviceItemText(deviceListWidget[i].src)
    /\ lastEvent.name = "scanFinished" =>
          /\ deviceListWidget # <<>>
          /\ (\E i \in 1..Len(deviceListWidget) :
                 deviceListWidget[i].text = NoDevicesText)
                => Len(deviceListWidget) = 1

\* C6: controllerError shows one dialog with the text of the error code, and
\* when it returns the controller is null, the maps and both lists are
\* empty, there is no current service, Scan and Connect are enabled and Read
\* is disabled.
C6_ControllerErrorCleanState ==
    /\ lastEvent.name = "controllerError" =>
          shown = << <<"BLE Controller Error", ControllerErrorString(lastEvent.err)>> >>
    /\ lastEvent.name = "controllerErrorReturn" =>
          /\ ~leController
          /\ m_services = EmptyMap
          /\ m_serviceUuids = <<>>
          /\ m_characteristicItems = EmptyMap
          /\ m_currentService = NullUuid
          /\ deviceListWidget = <<>>
          /\ characteristicListWidget = <<>>
          /\ scanButton
          /\ connectButton
          /\ ~readCharButton

\* C7: scanError shows one dialog whose text is determined by the code
\* (three codes have their own text, every other code 'Unknown error.'),
\* sets the status to 'Scan Error!', enables Scan, disables Connect and
\* Read, and changes neither the device list, the controller nor the maps.
C7_ScanErrorDialogAndState ==
    [][lastEvent'.name = "scanError" =>
         /\ shown' = << <<"Bluetooth Error",
                          CASE lastEvent'.err = "InputOutputError" ->
                                  "I/O Error (check permissions/hardware)."
                            [] lastEvent'.err = "PoweredOffError" ->
                                  "Bluetooth is powered off."
                            [] lastEvent'.err = "MissingPermissionsError" ->
                                  "Missing Bluetooth permissions."
                            [] OTHER -> "Unknown error.">> >>
         /\ statusLabel' = <<"Status: Scan Error!">>
         /\ scanButton'
         /\ ~connectButton'
         /\ ~readCharButton'
         /\ UNCHANGED <<deviceListWidget, leController, ctrlState, m_serviceUuids,
                        m_services, m_characteristicItems, m_currentService>>]_vars

\* C7 witness: scanError ran for MissingPermissionsError while devices were
\* listed and a controller existed.
C7_Witness ==
    /\ lastEvent.name = "scanError"
    /\ lastEvent.err = "MissingPermissionsError"
    /\ deviceListWidget # <<>>
    /\ leController

\* C8: the Scan button is disabled as long as the scan started by startScan
\* is running.
C8_ScanDisabledWhileScanning == agentActive => ~scanButton

\* C9: the Connect button is disabled from the connectToDevice that started
\* a connection until deviceDisconnected or controllerError.
C9_ConnectDisabledWhileConnected ==
    (leController /\ ctrlState # "UnconnectedState") => ~connectButton

\* C10: the Scan button is disabled from the connectToDevice that started a
\* connection until serviceDiscoveryFinished, deviceDisconnected or
\* controllerError.
C10_ScanDisabledWhileConnecting ==
    (leController /\ ctrlState \in {"ConnectingState", "DiscoveringState"})
       => ~scanButton

\* C11: the Connect button is disabled as long as the scan started by
\* startScan is running, so no connection starts during a scan.
C11_ConnectDisabledWhileScanning == agentActive => ~connectButton

\* C12: every item pointer stored in m_characteristicItems refers to an item
\* that is in the characteristic list.
C12_StoredItemsAreInList ==
    \A u \in DOMAIN m_characteristicItems :
       m_characteristicItems[u].item \in 1..Len(characteristicListWidget)

\* C13: when the characteristic list is not empty, the keys of
\* m_characteristicItems belong to m_currentService, which is the service
\* selected in the device list, and a read started by the Read button goes
\* to the service that owns the characteristic.
C13_DisplayedCharacteristicsOfCurrentService ==
    /\ characteristicListWidget # <<>> =>
          /\ m_currentService # NullUuid
          /\ \A u \in DOMAIN m_characteristicItems :
                m_characteristicItems[u].key.svc = m_currentService
          /\ deviceSel # 0
          /\ deviceListWidget[deviceSel].text = UuidToString(m_currentService)
    /\ lastEvent.name = "readCharClicked" =>
          \A r \in requests : r.char.svc = r.svc

\* C14: after a scan, selecting the entry of a discovered device enables the
\* Connect button whatever the device's name is, and selecting the
\* placeholder leaves it disabled.
C14_DeviceEntryEnablesConnect ==
    (lastEvent.name = "deviceItemSelectionChanged" /\ ~agentActive /\ ~leController) =>
       /\ deviceListWidget[deviceSel].src # NoDevice => connectButton
       /\ deviceListWidget[deviceSel].text = NoDevicesText => ~connectButton

\* C15: connectToDevice with no selection, or with a selected entry that is
\* not the entry of a device the agent holds, shows one dialog and changes
\* neither the controller, m_services, m_serviceUuids,
\* m_characteristicItems, m_currentService, the two lists nor the enabled
\* state of a button.
C15_RejectedConnectChangesNothing ==
    [][(/\ lastEvent'.name = "connectToDevice"
        /\ \/ deviceSel = 0
           \/ deviceListWidget[deviceSel].src \notin discoveredDevices) =>
         /\ Len(shown') = 1
         /\ UNCHANGED <<leController, ctrlState, ctrlRemote, serviceList,
                        m_services, m_serviceUuids, m_characteristicItems,
                        m_currentService, deviceListWidget,
                        characteristicListWidget, scanButton, connectButton,
                        readCharButton>>]_vars

\* C15 witness: connectToDevice was rejected for a selected service entry
\* while a controller with a discovered service existed.
C15_Witness ==
    /\ lastEvent.name = "connectToDevice"
    /\ Len(shown) = 1
    /\ deviceSel # 0
    /\ deviceListWidget[deviceSel].text = UuidToString("180a")
    /\ leController
    /\ m_services # EmptyMap

====
